---- MODULE Spec2Model ----
(***************************************************************************)
(* State-machine model of rc_controller_soapy.py: the OOK command encoder  *)
(* (RCControllerSignalGenerator.generate_signal), the sub-carrier          *)
(* modulator (_modulate_signal), the chunked stream writer                 *)
(* (_transmit_command) and the Tk "after"-driven retransmission scheduler  *)
(* (RCController press / release handlers and the periodic tick).          *)
(*                                                                         *)
(* Amplitudes are in hundredths (0.95 is 95).  A modulated sample          *)
(* a * exp(i*2*pi*f_offset*k/sample_rate) is the pair <<a, p>> with        *)
(* p = (f_offset * k) % sample_rate, its phase in units of 1/sample_rate   *)
(* turn; a zero amplitude gives the zero sample <<0, 0>>.                  *)
(***************************************************************************)
EXTENDS Integers, Sequences, FiniteSets

VARIABLES
    pc,                 \* position of the single Tk thread
    _current_command,   \* RCController._current_command
    _stop_command,      \* RCController._stop_command
    _job,               \* RCController._job: id returned by the last after()
    pending,            \* Tk timer queue: ids scheduled, not yet fired or cancelled
    nextId,             \* Tk's counter behind the "after#n" ids
    stream,             \* state of the SoapySDR TX stream
    buffer,             \* _transmit_command: local buffer (the remaining slice)
    numSampsTotal,      \* _transmit_command: local numSampsTotal
    arg_buffer,         \* the buffer _transmit_command was called with
    sent,               \* samples the device accepted during the current handler
    accepts,            \* chunk sizes the device may accept in one writeStream call
    event,              \* kind of the handler that ran last
    arg,                \* token of the direction that handler passed to _set_current_command
    prev,               \* <<event, arg>> of the handler before it
    active,             \* token of the direction held down (spec state MOVING), or NoDir
    stopped,            \* a release handler completed since the last press
    raised,             \* the last handler ended with an exception
    jobAtPress,         \* id of the job the last press scheduled
    released,           \* direction held when the last release began; NoDir after a press
    nIgnored,           \* key presses outside _key_map since the last handler that acted
    g_rate,             \* generator under test: its sample_rate
    g_cmd,              \* generator under test: the command string
    g_out               \* generator under test: what generate_signal returned

vars == <<pc, _current_command, _stop_command, _job, pending, nextId, stream,
          buffer, numSampsTotal, arg_buffer, sent, accepts,
          event, arg, prev, active, stopped, raised, jobAtPress,
          released, nIgnored, g_rate, g_cmd, g_out>>

(***************************************************************************)
(* Bounds                                                                  *)
(***************************************************************************)
\* RCControllerSignalGenerator._clock_period, in samples at the nominal
\* 8 MHz rate: the period is ClockPeriodSamples / 8000000 s.  The program's
\* 0.0005 s is 4000 samples per bit period; every other constant keeps its
\* value.
ClockPeriodSamples == 1
\* Tk timer ids handed out in one run.
MaxJobs == 4
\* Key presses outside the key map in one run.
MaxIgnored == 1
\* Chunk the device accepts per writeStream call in the scheduler runs, in
\* bit periods.
SchedChunkPeriods == 250
\* Longest buffer, and largest chunk, of the stand-alone writer runs.
MaxBufLen == 4
\* Longest command string handed to the generator under test.
MaxCmdLen == 3
\* Sample rates of the generator under test: 4 MHz * 2 .. 4 MHz * MaxRateStep.
MaxRateStep == 4

(***************************************************************************)
(* Class constants of RCController                                         *)
(***************************************************************************)
_radio_center_frequency == 25000000
_rc_control_frequency == 27000000
_sample_rate == 8000000

Min(a, b) == IF a < b THEN a ELSE b

\* Python's  k * xs  for a list xs.
RECURSIVE Repeat(_, _)
Repeat(k, xs) == IF k <= 0 THEN <<>> ELSE xs \o Repeat(k - 1, xs)

\* Python's  xs[r:]  for 0 <= r.
SliceFrom(xs, r) == SubSeq(xs, Min(r, Len(xs)) + 1, Len(xs))
\* Python's  xs[:r]  for 0 <= r.
SliceTo(xs, r) == SubSeq(xs, 1, Min(r, Len(xs)))

\* Python's  c in command  for a one-character string c; a command string
\* is the sequence of its characters.
Contains(command, c) == \E i \in 1..Len(command) : command[i] = c

(***************************************************************************)
(* RCControllerSignalGenerator                                             *)
(***************************************************************************)
\* What a Python function returns when it falls off its end.
None == <<-1>>

\* int(self._sample_rate * self._clock_period), the product truncated.
SamplesPerBit(sample_rate) == (sample_rate * ClockPeriodSamples) \div 8000000

low(sample_rate) == [i \in 1..SamplesPerBit(sample_rate) |-> 0]
high(sample_rate) == [i \in 1..SamplesPerBit(sample_rate) |-> 95]
\* Mutant: a long bit of 4 periods of high and 1 of low.
long_4high(sample_rate) == Repeat(4, high(sample_rate)) \o low(sample_rate)

long(sample_rate) == Repeat(3, high(sample_rate)) \o low(sample_rate)
short(sample_rate) == high(sample_rate) \o low(sample_rate)

cmd_forward(sr) == Repeat(4, long(sr)) \o Repeat(40, short(sr))
cmd_forward_right(sr) == Repeat(4, long(sr)) \o Repeat(46, short(sr))
cmd_forward_left(sr) == Repeat(4, long(sr)) \o Repeat(52, short(sr))
cmd_reverse(sr) == Repeat(4, long(sr)) \o Repeat(10, short(sr))
cmd_reverse_right(sr) == Repeat(4, long(sr)) \o Repeat(34, short(sr))
cmd_reverse_left(sr) == Repeat(4, long(sr)) \o Repeat(28, short(sr))
cmd_left(sr) == Repeat(4, long(sr)) \o Repeat(58, short(sr))
cmd_right(sr) == Repeat(4, long(sr)) \o Repeat(64, short(sr))
cmd_stop(sr) == Repeat(15, Repeat(4, long(sr)) \o Repeat(4, short(sr)))
\* Mutant: 10 samples of silence whatever the sample rate.
cmd_off_10(sr) == [i \in 1..10 |-> 0]

cmd_off(sr) == Repeat(10, low(sr))

HasN(command) == Contains(command, "n") \/ Contains(command, "N")
HasS(command) == Contains(command, "s") \/ Contains(command, "S")
HasE(command) == Contains(command, "e") \/ Contains(command, "E")
HasW(command) == Contains(command, "w") \/ Contains(command, "W")
HasX(command) == Contains(command, "x") \/ Contains(command, "X")
HasO(command) == Contains(command, "o") \/ Contains(command, "O")

\* Mutant: the plain east and west branches are swapped.
generate_signal_ew(sr, command) ==
    IF HasN(command)
    THEN IF HasE(command) THEN cmd_forward_right(sr)
         ELSE IF HasW(command) THEN cmd_forward_left(sr)
         ELSE cmd_forward(sr)
    ELSE IF HasS(command)
    THEN IF HasE(command) THEN cmd_reverse_right(sr)
         ELSE IF HasW(command) THEN cmd_reverse_left(sr)
         ELSE cmd_reverse(sr)
    ELSE IF HasE(command) THEN cmd_left(sr)
    ELSE IF HasW(command) THEN cmd_right(sr)
    ELSE IF HasX(command) THEN cmd_stop(sr)
    ELSE IF HasO(command) THEN cmd_off(sr)
    ELSE None

\* Mutant: the south test comes before the north test.
generate_signal_sfirst(sr, command) ==
    IF HasS(command)
    THEN IF HasE(command) THEN cmd_reverse_right(sr)
         ELSE IF HasW(command) THEN cmd_reverse_left(sr)
         ELSE cmd_reverse(sr)
    ELSE IF HasN(command)
    THEN IF HasE(command) THEN cmd_forward_right(sr)
         ELSE IF HasW(command) THEN cmd_forward_left(sr)
         ELSE cmd_forward(sr)
    ELSE IF HasE(command) THEN cmd_right(sr)
    ELSE IF HasW(command) THEN cmd_left(sr)
    ELSE IF HasX(command) THEN cmd_stop(sr)
    ELSE IF HasO(command) THEN cmd_off(sr)
    ELSE None

generate_signal(sr, command) ==
    IF HasN(command)
    THEN IF HasE(command) THEN cmd_forward_right(sr)
         ELSE IF HasW(command) THEN cmd_forward_left(sr)
         ELSE cmd_forward(sr)
    ELSE IF HasS(command)
    THEN IF HasE(command) THEN cmd_reverse_right(sr)
         ELSE IF HasW(command) THEN cmd_reverse_left(sr)
         ELSE cmd_reverse(sr)
    ELSE IF HasE(command) THEN cmd_right(sr)
    ELSE IF HasW(command) THEN cmd_left(sr)
    ELSE IF HasX(command) THEN cmd_stop(sr)
    ELSE IF HasO(command) THEN cmd_off(sr)
    ELSE None

(***************************************************************************)
(* RCController._modulate_signal                                           *)
(***************************************************************************)
frequency_offset == _rc_control_frequency - _radio_center_frequency

RECURSIVE GCD(_, _)
GCD(a, b) == IF b = 0 THEN a ELSE GCD(b, a % b)

\* Phase of exp(1j*2*pi*frequency_offset*k/_sample_rate) in units of
\* 1/_sample_rate turn, which is (frequency_offset * k) % _sample_rate.  The
\* fraction is reduced first so that the product stays inside the integers
\* TLC computes with.
PhaseUnit == GCD(frequency_offset, _sample_rate)
PhaseSteps == _sample_rate \div PhaseUnit
Phase(k) ==
    ((((frequency_offset \div PhaseUnit) % PhaseSteps) * (k % PhaseSteps))
        % PhaseSteps) * PhaseUnit

\* Sample k (from 0) is signal[k] * exp(1j*2*pi*frequency_offset*k/_sample_rate).
_modulate_signal(signal) ==
    [i \in 1..Len(signal) |->
        IF signal[i] = 0 THEN <<0, 0>> ELSE <<signal[i], Phase(i - 1)>>]

\* Mutant: the frame is modulated without being tiled 4 times.
SetCurrentCommand_untiled(direction) ==
    _modulate_signal(generate_signal(_sample_rate, direction))

\* _set_current_command: the value it stores in _current_command.
SetCurrentCommand(direction) ==
    _modulate_signal(Repeat(4, generate_signal(_sample_rate, direction)))

\* __init__: the value it stores in _stop_command.
StopBuffer == _modulate_signal(generate_signal(_sample_rate, <<"x">>))

(***************************************************************************)
(* The user interface: buttons and keys                                    *)
(***************************************************************************)
\* RCControllerView._build_gui: the labels the eight buttons pass on.
ButtonLabels ==
    { <<"N">>, <<"E">>, <<"S">>, <<"W">>,
      <<"N", "E">>, <<"S", "E">>, <<"N", "W">>, <<"S", "W">> }

\* Mutant: the keys q and e are exchanged.
_key_map_swapped ==
    [k \in {"w", "x", "d", "a", "q", "e", "z", "c"} |->
        CASE k = "w" -> <<"n">>
          [] k = "x" -> <<"s">>
          [] k = "d" -> <<"e">>
          [] k = "a" -> <<"w">>
          [] k = "q" -> <<"n", "e">>
          [] k = "e" -> <<"n", "w">>
          [] k = "z" -> <<"s", "w">>
          [] k = "c" -> <<"s", "e">>]

\* RCController._key_map
_key_map ==
    [k \in {"w", "x", "d", "a", "q", "e", "z", "c"} |->
        CASE k = "w" -> <<"n">>
          [] k = "x" -> <<"s">>
          [] k = "d" -> <<"e">>
          [] k = "a" -> <<"w">>
          [] k = "q" -> <<"n", "w">>
          [] k = "e" -> <<"n", "e">>
          [] k = "z" -> <<"s", "w">>
          [] k = "c" -> <<"s", "e">>]

\* Keys the keyboard may report: the mapped ones and one that is not mapped.
Keys == DOMAIN _key_map \cup {"p"}

\* Every direction string the user interface can hand to the controller,
\* and the IDLE token the controller uses itself.
Directions == ButtonLabels \cup {_key_map[k] : k \in DOMAIN _key_map} \cup {<<"o">>}

\* SetCurrentCommand tabulated over Directions, so that a buffer is built
\* once per direction rather than once per step explored.
CommandBuffers == [d \in Directions |-> SetCurrentCommand(d)]
CommandBuffer(direction) ==
    IF direction \in Directions THEN CommandBuffers[direction]
    ELSE SetCurrentCommand(direction)

Upper(c) ==
    CASE c = "n" -> "N" [] c = "s" -> "S" [] c = "e" -> "E" [] c = "w" -> "W"
      [] c = "x" -> "X" [] c = "o" -> "O" [] OTHER -> c
\* A direction string in upper case: the token the ghost variables record.
Token(d) == [i \in 1..Len(d) |-> Upper(d[i])]

\* The release handlers ignore their argument: one button, one mapped key
\* and the unmapped key stand for all of them.
ReleasedButtons == { <<"N">> }
ReleasedKeys == {"w", "p"}

NoDir == <<>>
NoJob == 0
NotCalled == <<-2>>
TxStates == {"tick_tx", "stop_tx", "call_tx"}

(***************************************************************************)
(* Tk timers: after() and after_cancel()                                   *)
(***************************************************************************)
\* Mutant: the cancel is forgotten.
after_cancel_forgotten(queue, id) == queue

\* view.after_cancel(id): the timer queue without id; an id that has fired
\* or was cancelled before is ignored.
after_cancel(queue, id) == queue \ {id}

\* view.after(ms, self._transmit_current_command): the queue with the new id.
after(queue, id) == queue \cup {id}

(***************************************************************************)
(* The device: SoapySDR writeStream                                        *)
(***************************************************************************)
\* sr.ret of writeStream(txStream, [buffer], size): a positive count of at
\* most size samples, or an error code that is zero or negative.
writeStream_ret(size) == {Min(size, c) : c \in accepts} \cup {0, -1}

(***************************************************************************)
(* RCController: handlers                                                  *)
(***************************************************************************)
GenUnchanged == UNCHANGED <<g_rate, g_cmd, g_out>>
TxUnchanged == UNCHANGED <<buffer, numSampsTotal, arg_buffer, sent>>

\* Mutant: the first tick is scheduled and the main loop entered without
\* the stream having been activated.
start_no_activate ==
    /\ pc = "new"
    /\ nextId <= MaxJobs
    /\ _current_command' = CommandBuffer(<<"o">>)
    /\ _job' = nextId
    /\ pending' = after(pending, nextId)
    /\ nextId' = nextId + 1
    /\ pc' = "idle"
    /\ event' = "start"
    /\ arg' = <<"O">>
    /\ prev' = <<event, arg>>
    /\ raised' = FALSE
    /\ UNCHANGED <<_stop_command, stream, accepts, active, stopped, jobAtPress,
                   released, nIgnored>>
    /\ TxUnchanged /\ GenUnchanged

\* start(): install the IDLE command, activate the stream, schedule the
\* first tick and enter the main loop.
start ==
    /\ pc = "new"
    /\ nextId <= MaxJobs
    /\ _current_command' = CommandBuffer(<<"o">>)
    /\ stream' = "active"
    /\ _job' = nextId
    /\ pending' = after(pending, nextId)
    /\ nextId' = nextId + 1
    /\ pc' = "idle"
    /\ event' = "start"
    /\ arg' = <<"O">>
    /\ prev' = <<event, arg>>
    /\ raised' = FALSE
    /\ UNCHANGED <<_stop_command, accepts, active, stopped, jobAtPress, released, nIgnored>>
    /\ TxUnchanged /\ GenUnchanged

\* Mutant: the press handler reschedules without rebuilding the command.
PressBody_keeps_command(direction) ==
    /\ pc = "idle"
    /\ nextId <= MaxJobs
    /\ event' = "press"
    /\ arg' = Token(direction)
    /\ prev' = <<event, arg>>
    /\ active' = Token(direction)
    /\ stopped' = FALSE
    /\ pending' = after(after_cancel(pending, _job), nextId)
    /\ _job' = nextId
    /\ jobAtPress' = nextId
    /\ nextId' = nextId + 1
    /\ raised' = FALSE
    /\ released' = NoDir
    /\ nIgnored' = 0
    /\ UNCHANGED <<pc, _current_command, _stop_command, stream, accepts>>
    /\ TxUnchanged /\ GenUnchanged

\* The body shared by the two press handlers: cancel, rebuild, reschedule.
\* generate_signal returning None makes 4*cmd raise, after the cancel.
PressBody(direction) ==
    /\ pc = "idle"
    /\ nextId <= MaxJobs
    /\ event' = "press"
    /\ arg' = Token(direction)
    /\ prev' = <<event, arg>>
    /\ active' = Token(direction)
    /\ stopped' = FALSE
    /\ IF generate_signal(_sample_rate, direction) = None
       THEN /\ pending' = after_cancel(pending, _job)
            /\ raised' = TRUE
            /\ UNCHANGED <<_current_command, _job, nextId, jobAtPress>>
       ELSE /\ _current_command' = CommandBuffer(direction)
            /\ pending' = after(after_cancel(pending, _job), nextId)
            /\ _job' = nextId
            /\ jobAtPress' = nextId
            /\ nextId' = nextId + 1
            /\ raised' = FALSE
    /\ released' = NoDir
    /\ nIgnored' = 0
    /\ UNCHANGED <<pc, _stop_command, stream, accepts>>
    /\ TxUnchanged /\ GenUnchanged

_button_press_handler(direction) == PressBody(direction)

_key_press_handler(key) ==
    IF key \notin DOMAIN _key_map
    THEN /\ pc = "idle"
         /\ nIgnored < MaxIgnored
         /\ nIgnored' = nIgnored + 1
         /\ UNCHANGED <<pc, _current_command, _stop_command, _job, pending,
                        nextId, stream, accepts, event, arg, prev, active,
                        stopped, raised, jobAtPress, released>>
         /\ TxUnchanged /\ GenUnchanged
    ELSE PressBody(_key_map[key])

\* Mutant: the release handler leaves the pending job in place.
_transmit_stop_command_no_cancel ==
    /\ pc = "idle"
    /\ nextId <= MaxJobs
    /\ pending' = pending
    /\ pc' = "stop_tx"
    /\ arg_buffer' = _stop_command
    /\ buffer' = _stop_command
    /\ numSampsTotal' = Len(_stop_command)
    /\ sent' = <<>>
    /\ event' = "release"
    /\ arg' = <<"X">>
    /\ prev' = <<event, arg>>
    /\ active' = NoDir
    /\ released' = active
    /\ raised' = FALSE
    /\ nIgnored' = 0
    /\ UNCHANGED <<_current_command, _stop_command, _job, nextId, stream,
                   accepts, stopped, jobAtPress>>
    /\ GenUnchanged

\* Mutant: a release handled with no direction active sends nothing.
_transmit_stop_command_if_moving ==
    /\ pc = "idle"
    /\ nextId <= MaxJobs
    /\ pending' = after_cancel(pending, _job)
    /\ IF active = NoDir
       THEN UNCHANGED <<pc, arg_buffer, buffer, numSampsTotal>>
       ELSE /\ pc' = "stop_tx"
            /\ arg_buffer' = _stop_command
            /\ buffer' = _stop_command
            /\ numSampsTotal' = Len(_stop_command)
    /\ sent' = <<>>
    /\ event' = "release"
    /\ arg' = <<"X">>
    /\ prev' = <<event, arg>>
    /\ active' = NoDir
    /\ released' = active
    /\ raised' = FALSE
    /\ nIgnored' = 0
    /\ UNCHANGED <<_current_command, _stop_command, _job, nextId, stream,
                   accepts, stopped, jobAtPress>>
    /\ GenUnchanged

\* _transmit_stop_command up to its call of _transmit_command: cancel the
\* job, enter the write loop with the stored STOP buffer.
_transmit_stop_command ==
    /\ pc = "idle"
    /\ nextId <= MaxJobs
    /\ pending' = after_cancel(pending, _job)
    /\ pc' = "stop_tx"
    /\ arg_buffer' = _stop_command
    /\ buffer' = _stop_command
    /\ numSampsTotal' = Len(_stop_command)
    /\ sent' = <<>>
    /\ event' = "release"
    /\ arg' = <<"X">>
    /\ prev' = <<event, arg>>
    /\ active' = NoDir
    /\ released' = active
    /\ raised' = FALSE
    /\ nIgnored' = 0
    /\ UNCHANGED <<_current_command, _stop_command, _job, nextId, stream,
                   accepts, stopped, jobAtPress>>
    /\ GenUnchanged

_button_unpress_handler(direction) == _transmit_stop_command

_key_unpress_handler(key) == _transmit_stop_command

\* Mutant: after the STOP frame the old command is left in place.
StopReturn_keeps_command ==
    /\ pc = "stop_tx"
    /\ numSampsTotal = 0
    /\ _job' = nextId
    /\ pending' = after(pending, nextId)
    /\ nextId' = nextId + 1
    /\ pc' = "idle"
    /\ stopped' = TRUE
    /\ UNCHANGED <<_current_command, _stop_command, stream, accepts, event,
                   arg, prev, active, raised, jobAtPress, released, nIgnored>>
    /\ TxUnchanged /\ GenUnchanged

\* Mutant: after the STOP frame the consumed slice is kept as the stored
\* STOP buffer.
StopReturn_keeps_slice ==
    /\ pc = "stop_tx"
    /\ numSampsTotal = 0
    /\ _stop_command' = buffer
    /\ _current_command' = CommandBuffer(<<"o">>)
    /\ _job' = nextId
    /\ pending' = after(pending, nextId)
    /\ nextId' = nextId + 1
    /\ pc' = "idle"
    /\ stopped' = TRUE
    /\ UNCHANGED <<stream, accepts, event, arg, prev, active, raised,
                   jobAtPress, released, nIgnored>>
    /\ TxUnchanged /\ GenUnchanged

\* _transmit_stop_command after _transmit_command returned: install the
\* IDLE command and schedule the next tick.
StopReturn ==
    /\ pc = "stop_tx"
    /\ numSampsTotal = 0
    /\ _current_command' = CommandBuffer(<<"o">>)
    /\ _job' = nextId
    /\ pending' = after(pending, nextId)
    /\ nextId' = nextId + 1
    /\ pc' = "idle"
    /\ stopped' = TRUE
    /\ UNCHANGED <<_stop_command, stream, accepts, event, arg, prev, active,
                   raised, jobAtPress, released, nIgnored>>
    /\ TxUnchanged /\ GenUnchanged

\* Mutant: the tick schedules its successor before it transmits.
TickSchedulesFirst(job) ==
    /\ pc = "idle"
    /\ job \in pending
    /\ nextId <= MaxJobs
    /\ pending' = after(pending \ {job}, nextId)
    /\ _job' = nextId
    /\ nextId' = nextId + 1
    /\ pc' = "tick_tx"
    /\ arg_buffer' = _current_command
    /\ buffer' = _current_command
    /\ numSampsTotal' = Len(_current_command)
    /\ sent' = <<>>
    /\ event' = "tick"
    /\ arg' = <<>>
    /\ prev' = <<event, arg>>
    /\ raised' = FALSE
    /\ nIgnored' = 0
    /\ UNCHANGED <<_current_command, _stop_command, stream, accepts, active,
                   stopped, jobAtPress, released>>
    /\ GenUnchanged

\* The timer job fires: _transmit_current_command up to its call of
\* _transmit_command.
_transmit_current_command(job) ==
    /\ pc = "idle"
    /\ job \in pending
    /\ nextId <= MaxJobs
    /\ pending' = pending \ {job}
    /\ pc' = "tick_tx"
    /\ arg_buffer' = _current_command
    /\ buffer' = _current_command
    /\ numSampsTotal' = Len(_current_command)
    /\ sent' = <<>>
    /\ event' = "tick"
    /\ arg' = <<>>
    /\ prev' = <<event, arg>>
    /\ raised' = FALSE
    /\ nIgnored' = 0
    /\ UNCHANGED <<_current_command, _stop_command, _job, nextId, stream,
                   accepts, active, stopped, jobAtPress, released>>
    /\ GenUnchanged

\* Mutant: a tick that has transmitted does not schedule its successor.
TickReturn_no_successor ==
    /\ pc = "tick_tx"
    /\ numSampsTotal = 0
    /\ pc' = "idle"
    /\ UNCHANGED <<_current_command, _stop_command, _job, pending, nextId,
                   stream, accepts, event, arg, prev, active, stopped, raised,
                   jobAtPress, released, nIgnored>>
    /\ TxUnchanged /\ GenUnchanged

\* Mutant: a tick that has transmitted keeps the consumed slice as the
\* current command.
TickReturn_keeps_slice ==
    /\ pc = "tick_tx"
    /\ numSampsTotal = 0
    /\ _current_command' = buffer
    /\ _job' = nextId
    /\ pending' = after(pending, nextId)
    /\ nextId' = nextId + 1
    /\ pc' = "idle"
    /\ UNCHANGED <<_stop_command, stream, accepts, event, arg, prev, active,
                   stopped, raised, jobAtPress, released, nIgnored>>
    /\ TxUnchanged /\ GenUnchanged

\* _transmit_current_command after _transmit_command returned: schedule
\* the next tick.
TickReturn ==
    /\ pc = "tick_tx"
    /\ numSampsTotal = 0
    /\ _job' = nextId
    /\ pending' = after(pending, nextId)
    /\ nextId' = nextId + 1
    /\ pc' = "idle"
    /\ UNCHANGED <<_current_command, _stop_command, stream, accepts, event,
                   arg, prev, active, stopped, raised, jobAtPress, released, nIgnored>>
    /\ TxUnchanged /\ GenUnchanged

(***************************************************************************)
(* RCController._transmit_command: one iteration of the while loop         *)
(***************************************************************************)
\* Mutant: the buffer is not advanced past the accepted samples.
NextBuffer_same(buf, ret) == buf

\* The slice the loop keeps after the device accepted ret samples.
NextBuffer(buf, ret) == SliceFrom(buf, ret)

\* The count the loop still has to send after the device accepted ret.
NextTotal(total, ret) == total - ret

\* size = min(buffer.size, numSampsTotal)
RequestSize == Min(Len(buffer), numSampsTotal)

\* An iteration in which writeStream accepts ret > 0 samples.
WriteAccepted ==
    /\ pc \in TxStates
    /\ numSampsTotal # 0
    /\ \E ret \in writeStream_ret(RequestSize) :
          /\ ret > 0
          /\ sent' = sent \o SliceTo(buffer, ret)
          /\ numSampsTotal' = NextTotal(numSampsTotal, ret)
          /\ buffer' = NextBuffer(buffer, ret)
    /\ UNCHANGED <<pc, _current_command, _stop_command, _job, pending, nextId,
                   stream, arg_buffer, accepts, event, arg, prev, active,
                   stopped, raised, jobAtPress, released, nIgnored>>
    /\ GenUnchanged

\* Mutant: a refused write is logged and the loop tries again.
WriteRefused_retry ==
    /\ pc \in TxStates
    /\ numSampsTotal # 0
    /\ \E ret \in writeStream_ret(RequestSize) : ret <= 0
    /\ raised' = TRUE
    /\ UNCHANGED <<pc, _current_command, _stop_command, _job, pending, nextId,
                   stream, accepts, event, arg, prev, active, stopped,
                   jobAtPress, released, nIgnored>>
    /\ TxUnchanged /\ GenUnchanged

\* Where control goes when the assertion of the loop fails: a handler run
\* by Tk is abandoned and the main loop goes on; a direct call raises.
AfterRaise == IF pc = "call_tx" THEN "call_raised" ELSE "idle"

\* An iteration in which writeStream returns ret <= 0: assert(sr.ret > 0)
\* raises and the exception leaves _transmit_command and its caller.
WriteRefused ==
    /\ pc \in TxStates
    /\ numSampsTotal # 0
    /\ \E ret \in writeStream_ret(RequestSize) : ret <= 0
    /\ pc' = AfterRaise
    /\ raised' = TRUE
    /\ UNCHANGED <<_current_command, _stop_command, _job, pending, nextId,
                   stream, accepts, event, arg, prev, active, stopped,
                   jobAtPress, released, nIgnored>>
    /\ TxUnchanged /\ GenUnchanged

\* The window is closed: mainloop() returns, start() deactivates and closes
\* the stream.  Timer jobs still queued never fire.
Quit ==
    /\ pc = "idle"
    /\ pc' = "closed"
    /\ stream' = "closed"
    /\ UNCHANGED <<_current_command, _stop_command, _job, pending, nextId,
                   accepts, event, arg, prev, active, stopped, raised,
                   jobAtPress, released, nIgnored>>
    /\ TxUnchanged /\ GenUnchanged

(***************************************************************************)
(* The controller session                                                  *)
(***************************************************************************)
\* The state __init__ leaves: the STOP buffer is stored, the stream is set
\* up; _current_command and _job do not exist yet.
Init ==
    /\ pc = "new"
    /\ _current_command = <<>>
    /\ _stop_command = StopBuffer
    /\ _job = NoJob
    /\ pending = {}
    /\ nextId = 1
    /\ stream = "setup"
    /\ buffer = <<>>
    /\ numSampsTotal = 0
    /\ arg_buffer = <<>>
    /\ sent = <<>>
    /\ accepts = {SchedChunkPeriods * SamplesPerBit(_sample_rate)}
    /\ event = "init"
    /\ arg = <<>>
    /\ prev = <<"none", <<>>>>
    /\ active = NoDir
    /\ stopped = FALSE
    /\ raised = FALSE
    /\ jobAtPress = NoJob
    /\ released = NoDir
    /\ nIgnored = 0
    /\ g_rate = _sample_rate
    /\ g_cmd = <<>>
    /\ g_out = NotCalled

Next ==
    \/ start
    \/ \E d \in ButtonLabels : _button_press_handler(d)
    \/ \E d \in ReleasedButtons : _button_unpress_handler(d)
    \/ \E k \in Keys : _key_press_handler(k)
    \/ \E k \in ReleasedKeys : _key_unpress_handler(k)
    \/ \E j \in pending : _transmit_current_command(j)
    \/ WriteAccepted
    \/ WriteRefused
    \/ TickReturn
    \/ StopReturn
    \/ Quit

Spec == Init /\ [][Next]_vars

(***************************************************************************)
(* The session without an end: timer ids are reused                        *)
(***************************************************************************)
\* Tk names each timer with a new "after#n" and never issues a name twice.
\* The names are only stored and compared for equality (after_cancel, the
\* timer queue), so a name that no timer holds and that nothing recorded
\* refers to any more (neither _job nor the id of the last press) can stand
\* for the next new name: every equality between the ids that are still
\* held is as it is in Tk.  The id issued next is the least such id.
FreshId(queue, held) ==
    LET free == {i \in 1..MaxJobs : i \notin queue \cup held}
    IN  IF free = {} THEN MaxJobs + 1
        ELSE CHOOSE i \in free : \A k \in free : i <= k

\* _button_press_handler: cancel, rebuild, reschedule.
LivePressBody(direction) ==
    /\ pc = "idle"
    /\ nextId <= MaxJobs
    /\ event' = "press"
    /\ arg' = Token(direction)
    /\ prev' = <<event, arg>>
    /\ active' = Token(direction)
    /\ stopped' = FALSE
    /\ IF generate_signal(_sample_rate, direction) = None
       THEN /\ pending' = after_cancel(pending, _job)
            /\ raised' = TRUE
            /\ UNCHANGED <<_current_command, _job, nextId, jobAtPress>>
       ELSE /\ _current_command' = CommandBuffer(direction)
            /\ pending' = after(after_cancel(pending, _job), nextId)
            /\ _job' = nextId
            /\ jobAtPress' = nextId
            /\ nextId' = FreshId(pending', {_job', jobAtPress'})
            /\ raised' = FALSE
    /\ released' = NoDir
    /\ nIgnored' = 0
    /\ UNCHANGED <<pc, _stop_command, stream, accepts>>
    /\ TxUnchanged /\ GenUnchanged

\* _transmit_stop_command after _transmit_command returned: install the
\* IDLE command and schedule the next tick.
LiveStopReturn ==
    /\ pc = "stop_tx"
    /\ numSampsTotal = 0
    /\ _current_command' = CommandBuffer(<<"o">>)
    /\ _job' = nextId
    /\ pending' = after(pending, nextId)
    /\ nextId' = FreshId(pending', {_job', jobAtPress})
    /\ pc' = "idle"
    /\ stopped' = TRUE
    /\ UNCHANGED <<_stop_command, stream, accepts, event, arg, prev, active,
                   raised, jobAtPress, released, nIgnored>>
    /\ TxUnchanged /\ GenUnchanged

\* _transmit_current_command after _transmit_command returned: schedule
\* the next tick.
LiveTickReturn ==
    /\ pc = "tick_tx"
    /\ numSampsTotal = 0
    /\ _job' = nextId
    /\ pending' = after(pending, nextId)
    /\ nextId' = FreshId(pending', {_job', jobAtPress})
    /\ pc' = "idle"
    /\ UNCHANGED <<_current_command, _stop_command, stream, accepts, event,
                   arg, prev, active, stopped, raised, jobAtPress, released, nIgnored>>
    /\ TxUnchanged /\ GenUnchanged

\* The session driven by the buttons: the key handlers run the same bodies
\* as the button handlers.  Presses, releases and ticks may go on for ever.
NextLive ==
    \/ start
    \/ \E d \in ButtonLabels : LivePressBody(d)
    \/ \E d \in ReleasedButtons : _button_unpress_handler(d)
    \/ \E j \in pending : _transmit_current_command(j)
    \/ WriteAccepted
    \/ WriteRefused
    \/ LiveTickReturn
    \/ LiveStopReturn
    \/ Quit

\* The Tk event loop runs a timer that stays in its queue (one that is
\* cancelled first is never run), and the thread that runs a handler goes
\* on running it: the write loop iterates and the handler returns.  Whether
\* a write is accepted or refused is the device's choice, and no press,
\* release or quit is ever forced.
LiveSpec ==
    /\ Init
    /\ [][NextLive]_vars
    /\ \A j \in 1..MaxJobs : WF_vars(_transmit_current_command(j))
    /\ WF_vars(WriteAccepted \/ WriteRefused)
    /\ WF_vars(LiveTickReturn)

(***************************************************************************)
(* _transmit_command on its own, over every short buffer and every chunk   *)
(***************************************************************************)
Samples == { <<0, 0>>, <<95, 0>>, <<95, 2000000>> }
Buffers == UNION { [1..n -> Samples] : n \in 0..MaxBufLen }

InitWriter ==
    /\ pc = "call"
    /\ arg_buffer \in Buffers
    /\ accepts \in {{}, {1}, 1..MaxBufLen}
    /\ _current_command = <<>>
    /\ _stop_command = StopBuffer
    /\ _job = NoJob
    /\ pending = {}
    /\ nextId = 1
    /\ stream = "active"
    /\ buffer = <<>>
    /\ numSampsTotal = 0
    /\ sent = <<>>
    /\ event = "init"
    /\ arg = <<>>
    /\ prev = <<"none", <<>>>>
    /\ active = NoDir
    /\ stopped = FALSE
    /\ raised = FALSE
    /\ jobAtPress = NoJob
    /\ released = NoDir
    /\ nIgnored = 0
    /\ g_rate = _sample_rate
    /\ g_cmd = <<>>
    /\ g_out = NotCalled

\* _transmit_command(buffer) is entered: numSampsTotal = len(buffer).
_transmit_command ==
    /\ pc = "call"
    /\ pc' = "call_tx"
    /\ buffer' = arg_buffer
    /\ numSampsTotal' = Len(arg_buffer)
    /\ sent' = <<>>
    /\ UNCHANGED <<_current_command, _stop_command, _job, pending, nextId,
                   stream, arg_buffer, accepts, event, arg, prev, active,
                   stopped, raised, jobAtPress, released, nIgnored>>
    /\ GenUnchanged

\* The while loop ends and _transmit_command returns.
CallReturn ==
    /\ pc = "call_tx"
    /\ numSampsTotal = 0
    /\ pc' = "call_done"
    /\ UNCHANGED <<_current_command, _stop_command, _job, pending, nextId,
                   stream, accepts, event, arg, prev, active, stopped, raised,
                   jobAtPress, released, nIgnored>>
    /\ TxUnchanged /\ GenUnchanged

NextWriter ==
    \/ _transmit_command
    \/ WriteAccepted
    \/ WriteRefused
    \/ CallReturn

SpecWriter == InitWriter /\ [][NextWriter]_vars

\* The scheduling of one thread: a loop iteration that can run does run.
FairWriter ==
    SpecWriter /\ WF_vars(WriteAccepted \/ WriteRefused) /\ WF_vars(CallReturn)
        /\ WF_vars(_transmit_command)

(***************************************************************************)
(* generate_signal on its own, over every short command string             *)
(***************************************************************************)
Letters == {"n", "N", "s", "S", "e", "E", "w", "W", "x", "X", "o", "O", "k"}
Commands == UNION { [1..n -> Letters] : n \in 0..MaxCmdLen }
SampleRates == { 4000000 * k : k \in 2..MaxRateStep }

InitGen ==
    /\ g_rate \in SampleRates
    /\ g_cmd \in Commands
    /\ g_out = NotCalled
    /\ pc = "gen"
    /\ _current_command = <<>>
    /\ _stop_command = StopBuffer
    /\ _job = NoJob
    /\ pending = {}
    /\ nextId = 1
    /\ stream = "setup"
    /\ buffer = <<>>
    /\ numSampsTotal = 0
    /\ arg_buffer = <<>>
    /\ sent = <<>>
    /\ accepts = {SchedChunkPeriods * SamplesPerBit(_sample_rate)}
    /\ event = "init"
    /\ arg = <<>>
    /\ prev = <<"none", <<>>>>
    /\ active = NoDir
    /\ stopped = FALSE
    /\ raised = FALSE
    /\ jobAtPress = NoJob
    /\ released = NoDir
    /\ nIgnored = 0

\* RCControllerSignalGenerator(g_rate).generate_signal(g_cmd) is called.
Generate ==
    /\ pc = "gen"
    /\ pc' = "gen_done"
    /\ g_out' = generate_signal(g_rate, g_cmd)
    /\ UNCHANGED <<_current_command, _stop_command, _job, pending, nextId,
                   stream, accepts, event, arg, prev, active, stopped, raised,
                   jobAtPress, released, nIgnored, g_rate, g_cmd>>
    /\ TxUnchanged

NextGen == Generate

SpecGen == InitGen /\ [][NextGen]_vars

(***************************************************************************)
(* Frames as the specification words them, built from bit shapes alone     *)
(***************************************************************************)
\* n samples of value v.
Level(n, v) == [i \in 1..n |-> v]
\* A long bit-shape: 3n samples of 0.95 then n samples of 0.
LongShape(n) == Level(3 * n, 95) \o Level(n, 0)
\* A short bit-shape: n samples of 0.95 then n samples of 0.
ShortShape(n) == Level(n, 95) \o Level(n, 0)
\* 4 long bit-shapes followed by count short ones.
DirectionFrame(n, count) == Repeat(4, LongShape(n)) \o Repeat(count, ShortShape(n))
\* 15 repetitions of 4 long then 4 short bit-shapes.
StopFrame(n) == Repeat(15, Repeat(4, LongShape(n)) \o Repeat(4, ShortShape(n)))

LetterSet(d) == {Upper(d[i]) : i \in 1..Len(d)}

\* The eight direction tokens, in either case.
IsDirection(d) ==
    LetterSet(d) \in { {"N"}, {"S"}, {"E"}, {"W"},
                       {"N", "E"}, {"N", "W"}, {"S", "E"}, {"S", "W"} }

\* Short pulses of a direction token.
PulseCount(d) ==
    CASE LetterSet(d) = {"N"} -> 40
      [] LetterSet(d) = {"N", "E"} -> 46
      [] LetterSet(d) = {"N", "W"} -> 52
      [] LetterSet(d) = {"S"} -> 10
      [] LetterSet(d) = {"S", "E"} -> 34
      [] LetterSet(d) = {"S", "W"} -> 28
      [] LetterSet(d) = {"W"} -> 58
      [] LetterSet(d) = {"E"} -> 64

\* Samples per bit period of the controller itself.
Nbit == SamplesPerBit(_sample_rate)

\* The up-converted form of a baseband sequence: sample k keeps its
\* amplitude and carries the phase of k quarter turns (2 MHz on 8 MHz).
UpConverted(signal) ==
    [i \in 1..Len(signal) |->
        IF signal[i] = 0 THEN <<0, 0>> ELSE <<signal[i], ((i - 1) % 4) * 2000000>>]

\* The buffer on air for a direction with the given pulse count: the frame
\* tiled 4 times, then up-converted.
MovingBuffer(count) == UpConverted(Repeat(4, DirectionFrame(Nbit, count)))
\* The buffer on air when idle: 4 times 10 bit periods of silence.
IdleBuffer == Level(4 * 10 * Nbit, <<0, 0>>)
\* The STOP buffer: the single STOP frame, up-converted.
StopOnAir == UpConverted(StopFrame(Nbit))

MovingBuffers == [c \in {10, 28, 34, 40, 46, 52, 58, 64} |-> MovingBuffer(c)]

IsPrefix(xs, ys) == Len(xs) <= Len(ys) /\ xs = SubSeq(ys, 1, Len(xs))

(***************************************************************************)
(* Claims                                                                  *)
(***************************************************************************)
\* C1: in every reachable state of a session at most one periodic
\* retransmission job is pending, and it is the one recorded in _job.
C1_AtMostOneJob == Cardinality(pending) <= 1 /\ pending \subseteq {_job}

\* C1 witness: two presses in a row, the second having cancelled the job
\* of the first, leave one job pending.
C1_Witness ==
    /\ pc = "idle" /\ event = "press" /\ prev[1] = "press"
    /\ Cardinality(pending) = 1

IsPressOf(e, a, letters) == e = "press" /\ LetterSet(a) = letters

\* C2 as stated: after press(N) then press(E) with no tick in between, one
\* job is pending and the command on air is the forward-right frame (46).
C2_ForwardRight ==
    (pc = "idle" /\ IsPressOf(prev[1], prev[2], {"N"}) /\ IsPressOf(event, arg, {"E"}))
        => /\ Cardinality(pending) = 1
           /\ _current_command = MovingBuffers[46]

\* C2 amended: after press(N) then press(E) with no tick in between, one
\* job is pending and the command on air is the right frame (64), the frame
\* of the last press; the tick that follows transmits that buffer.
C2_LastPressWins ==
    /\ (pc = "idle" /\ IsPressOf(prev[1], prev[2], {"N"}) /\ IsPressOf(event, arg, {"E"}))
          => /\ Cardinality(pending) = 1
             /\ _current_command = MovingBuffers[64]
    /\ (pc = "tick_tx" /\ IsPressOf(prev[1], prev[2], {"E"}))
          => arg_buffer = MovingBuffers[64]

\* C2 witness: press(N) then press(E), no tick in between.
C2_Witness ==
    /\ pc = "idle" /\ prev = <<"press", <<"N">>>> /\ event = "press"
    /\ arg = <<"E">> /\ Cardinality(pending) = 1

\* C3: a release handled while a direction is active, with every write
\* accepted, writes exactly the STOP frame, installs the IDLE buffer and
\* leaves exactly one job pending; every tick from then until the next
\* press transmits the IDLE buffer and nothing else.
C3_StopThenIdle ==
    /\ (pc = "idle" /\ event = "release" /\ ~raised /\ released # NoDir)
          => /\ sent = StopOnAir
             /\ _current_command = IdleBuffer
             /\ Cardinality(pending) = 1
    /\ (stopped /\ event = "tick")
          => /\ arg_buffer = IdleBuffer
             /\ IsPrefix(sent, IdleBuffer)
             /\ (pc = "idle" /\ ~raised => sent = IdleBuffer)

\* C3 witness: a tick has transmitted the whole IDLE buffer after a release
\* that followed a press.
C3_Witness ==
    /\ pc = "idle" /\ stopped /\ event = "tick" /\ prev[1] = "release"
    /\ ~raised /\ sent = IdleBuffer /\ released # NoDir

\* C4: while the direction d of the last press is held, the current command
\* is the buffer of d, a tick transmits slices of that buffer only, and no
\* job scheduled before the press is pending.
C4_NoStaleCommand ==
    active # NoDir
        => /\ _current_command = MovingBuffers[PulseCount(active)]
           /\ (pc = "tick_tx"
                 => /\ arg_buffer = MovingBuffers[PulseCount(active)]
                    /\ sent \o buffer = arg_buffer)
           /\ \A j \in pending : j >= jobAtPress

\* C4 witness: a tick is part-way through the buffer of the direction
\* pressed last, a press that replaced another direction.
C4_Witness ==
    /\ pc = "tick_tx" /\ active = <<"S", "W">> /\ prev[1] = "press"
    /\ 0 < Len(sent) /\ Len(buffer) > 0

\* C5: inside _transmit_command the slice handed to the next writeStream
\* call starts at the first sample not yet accepted, the size requested is
\* the number of samples still to send, the accepted samples are, in order,
\* the head of the original buffer, and on return all of it was accepted.
C5_ExactDelivery ==
    /\ pc = "call_tx"
          => /\ buffer = SliceFrom(arg_buffer, Len(sent))
             /\ RequestSize = Len(arg_buffer) - Len(sent)
             /\ numSampsTotal = Len(arg_buffer) - Len(sent)
             /\ IsPrefix(sent, arg_buffer)
    /\ pc = "call_done" => sent = arg_buffer

\* C5 witness: part of a buffer of pairwise different neighbours was
\* accepted, part is still to send.
C5_Witness ==
    /\ pc = "call_tx" /\ Len(arg_buffer) = MaxBufLen
    /\ Len(sent) = 2 /\ arg_buffer[1] # arg_buffer[2] /\ arg_buffer[2] # arg_buffer[3]

\* C6: _transmit_command always ends: either every sample was accepted and
\* it returns, or a write was refused and it raises; once a write was
\* refused the loop is left and makes no further call.
C6_Terminates ==
    /\ (pc = "call_tx") ~> (pc \in {"call_done", "call_raised"})
    /\ [](raised => pc = "call_raised")
    /\ [](pc = "call_done" => sent = arg_buffer)

\* C6 witness: a write is refused after some samples were accepted one at
\* a time, and the call has raised.
C6_Witness ==
    /\ pc = "call_raised" /\ accepts = {1} /\ Len(sent) = MaxBufLen - 1

\* C7: when a write is refused during a tick the tick schedules nothing:
\* until the next press or release no job is pending and the thread is
\* back in the event loop (or the session ended), writing nothing.
C7_FailedTickHalts ==
    (event = "tick" /\ raised)
        => /\ pending = {}
           /\ pc \in {"idle", "closed"}

\* C7 witness: a tick of a held direction failed part-way through its frame.
C7_Witness ==
    /\ event = "tick" /\ raised /\ pc = "idle" /\ active # NoDir
    /\ 0 < Len(sent) /\ Len(sent) < Len(arg_buffer)

\* C8: for each of the eight directions, in either case, generate_signal
\* returns 4 long bit-shapes followed by the direction's count of short
\* bit-shapes and nothing else, 4*(4N) + count*(2N) samples.
C8_DirectionFrames ==
    (pc = "gen_done" /\ IsDirection(g_cmd))
        => /\ g_out = DirectionFrame(SamplesPerBit(g_rate), PulseCount(g_cmd))
           /\ Len(g_out) = 4 * (4 * SamplesPerBit(g_rate))
                             + PulseCount(g_cmd) * (2 * SamplesPerBit(g_rate))

\* C8 witness: reverse-left at 2 samples per bit, 16*2 + 28*4 samples.
C8_Witness ==
    /\ pc = "gen_done" /\ g_cmd = <<"S", "W">> /\ SamplesPerBit(g_rate) = 2
    /\ Len(g_out) = 144

\* C9: generate_signal("x") is 15 repetitions of 4 long then 4 short
\* bit-shapes, 15*(4*4N + 4*2N) samples; generate_signal("o") is 10*N
\* samples of 0.
C9_StopAndIdleFrames ==
    /\ (pc = "gen_done" /\ g_cmd = <<"x">>)
          => /\ g_out = StopFrame(SamplesPerBit(g_rate))
             /\ Len(g_out) = 15 * (4 * 4 * SamplesPerBit(g_rate)
                                     + 4 * 2 * SamplesPerBit(g_rate))
    /\ (pc = "gen_done" /\ g_cmd = <<"o">>)
          => g_out = Level(10 * SamplesPerBit(g_rate), 0)

\* C9 witness: the IDLE token at 2 samples per bit gives 20 samples.
C9_Witness ==
    /\ pc = "gen_done" /\ g_cmd = <<"o">> /\ SamplesPerBit(g_rate) = 2
    /\ Len(g_out) = 20

HasLetter(command, letters) == \E i \in 1..Len(command) : command[i] \in letters

\* C10: a command string with an n or N and an e or E gives the
\* forward-right frame (46 short pulses), whatever the order, the case and
\* the other letters.
C10_ForwardRightComposition ==
    (pc = "gen_done" /\ HasLetter(g_cmd, {"n", "N"}) /\ HasLetter(g_cmd, {"e", "E"}))
        => g_out = DirectionFrame(SamplesPerBit(g_rate), 46)

\* C10 witness: east first, then a south letter, then north, mixed case.
C10_Witness ==
    /\ pc = "gen_done" /\ g_cmd = <<"E", "s", "n">>
    /\ Len(g_out) = SamplesPerBit(g_rate) * (16 + 92)

\* The outcome the specification asks of generate_signal for a command it
\* does not recognise: an InvalidCommand error.
InvalidCommand == <<-3>>

\* C11: for a command string with none of the letters n, s, e, w, x, o in
\* either case, generate_signal fails with InvalidCommand and does not
\* return normally without a frame.
C11_InvalidCommand ==
    (pc = "gen_done"
        /\ ~HasLetter(g_cmd, {"n", "N", "s", "S", "e", "E", "w", "W", "x", "X", "o", "O"}))
        => g_out = InvalidCommand

\* C12: the buffer a press installs has 4 times the samples of the frame
\* generate_signal gives for its direction, and the stored STOP buffer has
\* exactly the samples of generate_signal("x").
C12_LengthsAndTiling ==
    /\ active # NoDir
          => /\ Len(_current_command) = 4 * Len(generate_signal(_sample_rate, active))
             /\ Len(_current_command) = 4 * (16 + 2 * PulseCount(active)) * Nbit
    /\ Len(_stop_command) = Len(generate_signal(_sample_rate, <<"x">>))
    /\ Len(_stop_command) = 360 * Nbit

\* C12 witness: forward-left is held, 4 * (16 + 104) samples per bit period.
C12_Witness ==
    /\ pc = "idle" /\ active = <<"N", "W">>
    /\ Len(_current_command) = 480 * Nbit /\ Len(_stop_command) = 360 * Nbit

\* C13: samples are written only while the stream is active: nothing is
\* written or scheduled before start() has activated it, and once it is
\* closed the thread has left the event loop for good.
C13_WritesOnlyWhileActive ==
    /\ pc \in {"tick_tx", "stop_tx"} => stream = "active"
    /\ stream = "setup" => (pc = "new" /\ pending = {} /\ sent = <<>>)
    /\ stream = "closed" => pc = "closed"
    /\ pc = "idle" => (stream = "active" /\ _current_command # <<>>)

\* C13 witness: the session has ended after samples were written, with a
\* timer job still queued that will never fire.
C13_Witness ==
    /\ pc = "closed" /\ stream = "closed" /\ Len(sent) > 0 /\ pending # {}

\* A tick has written the whole frame of direction d and left its
\* successor pending.
FrameOnAir(d) ==
    /\ pc = "idle" /\ event = "tick" /\ ~raised /\ active = d
    /\ sent = MovingBuffers[PulseCount(d)]
    /\ pending # {}

\* A tick of direction d has just fired and has written nothing yet.
TickBegins(d) ==
    /\ pc = "tick_tx" /\ event = "tick" /\ active = d
    /\ arg_buffer = MovingBuffers[PulseCount(d)]
    /\ sent = <<>>

\* A step of a press or of a release handler.
UserEvent ==
    \/ \E label \in ButtonLabels : LivePressBody(label)
    \/ \E label \in ButtonLabels : _button_unpress_handler(label)

\* C14: in every behaviour in which, from some point on, direction d is
\* active, no press or release is handled any more, the session is not
\* closed and no write is refused, the ticks of d fire infinitely often and
\* the complete frame of d is written to the stream infinitely often.
C14_KeepsOnAir ==
    \A d \in {Token(label) : label \in ButtonLabels} :
        (/\ <>[][~UserEvent]_vars
         /\ <>[](active = d /\ ~raised /\ pc # "closed"))
           => ([]<>TickBegins(d) /\ []<>FrameOnAir(d))

\* C14 witness: two ticks in a row have each written the whole frame of
\* the held direction, and a third is pending.
C14_Witness ==
    /\ pc = "idle" /\ event = "tick" /\ prev[1] = "tick" /\ ~raised
    /\ active = <<"E">> /\ sent = MovingBuffers[64] /\ pending # {}

\* C15: a tick leaves the current command buffer as it found it, partial
\* writes included, and transmits that buffer; the buffer is replaced only
\* by start, a press handler or a release handler.
C15_TickReadsOnly ==
    /\ [][(pc = "tick_tx" \/ pc' = "tick_tx") => _current_command' = _current_command]_vars
    /\ [][_current_command' # _current_command
             => (pc' = "idle" /\ event' \in {"start", "press", "release"})]_vars
    /\ [](pc = "tick_tx" => (arg_buffer = _current_command /\ sent \o buffer = _current_command))
    /\ []((pc = "idle" /\ event = "tick" /\ ~raised) => sent = _current_command)

\* C15 witness: a tick is part-way through the buffer of a held direction.
C15_Witness ==
    /\ pc = "tick_tx" /\ active # NoDir /\ 0 < Len(sent) /\ 0 < Len(buffer)
    /\ Len(buffer) < Len(_current_command)

\* C16: the stored STOP buffer is the single up-converted STOP frame in
\* every state, and every release transmits slices of that whole frame.
C16_StopBufferImmutable ==
    /\ _stop_command = StopOnAir
    /\ pc = "stop_tx" => (arg_buffer = StopOnAir /\ sent \o buffer = StopOnAir)
    /\ (pc = "idle" /\ event = "release" /\ ~raised) => sent = StopOnAir

\* C16 witness: a second release in a row has written the whole STOP frame.
C16_Witness ==
    /\ pc = "idle" /\ event = "release" /\ prev[1] = "release" /\ ~raised
    /\ sent = StopOnAir /\ Len(sent) = 360 * Nbit

\* C17 (as first stated): a release handled while no direction is active
\* writes no STOP frame to the stream.
C17_NoStopWhenIdle ==
    ~(event = "release" /\ released = NoDir /\ Len(sent) > 0)

\* C17: a STOP frame is written to the stream only by a release handler, and
\* every release writes it, whether a direction was active or the scheduler
\* was already idle; a tick never transmits the STOP frame.
C17_StopOnEveryRelease ==
    /\ pc = "stop_tx" => (event = "release" /\ arg_buffer = StopOnAir)
    /\ (event = "release" /\ pc = "idle" /\ ~raised) => sent = StopOnAir
    /\ event = "tick" => arg_buffer # StopOnAir

C17_Witness ==
    /\ event = "release" /\ released = NoDir /\ prev[1] = "release"
    /\ pc = "idle" /\ ~raised
    /\ sent = StopOnAir


\* C18: a keyboard event for a key outside the key map, press or release,
\* leaves the current command buffer and the pending job unchanged and starts
\* no write to the stream.
C18_UnmappedKeyIgnored ==
    [][(\E key \in Keys \ DOMAIN _key_map :
            _key_press_handler(key) \/ _key_unpress_handler(key))
          => /\ _current_command' = _current_command
             /\ pending' = pending
             /\ pc' = pc
             /\ sent' = sent]_vars

\* C19: once a release has been handled, and until the next press, only STOP
\* and IDLE frames are written to the stream, whether or not the STOP write
\* succeeded; after a failed STOP write the current command is still the
\* directional frame but no job is pending to transmit it.
C19_NoDirectionAfterRelease ==
    /\ (active = NoDir /\ pc \in {"tick_tx", "stop_tx"})
          => arg_buffer \in {IdleBuffer, StopOnAir}
    /\ active = NoDir => (IsPrefix(sent, IdleBuffer) \/ IsPrefix(sent, StopOnAir))
    /\ (event = "release" /\ raised /\ released # NoDir)
          => /\ pending = {}
             /\ _current_command = MovingBuffers[PulseCount(released)]

\* C19 witness: a STOP write failed, the directional frame is still the
\* current command, and a later release is writing the STOP frame.
C19_Witness ==
    /\ pc = "stop_tx" /\ event = "release" /\ prev[1] = "release"
    /\ _current_command = MovingBuffers[40]
    /\ pending = {}
    /\ arg_buffer = StopOnAir /\ Len(sent) > 0

\* The number of short pulses the frame of each mapped key carries.
KeyPulses ==
    [k \in {"w", "x", "d", "a", "q", "e", "z", "c"} |->
        CASE k = "w" -> 40
          [] k = "x" -> 10
          [] k = "d" -> 64
          [] k = "a" -> 58
          [] k = "q" -> 52
          [] k = "e" -> 46
          [] k = "z" -> 28
          [] k = "c" -> 34]

\* The key that moves the car the way a button does.
KeyOfLabel(label) ==
    CASE label = <<"N">> -> "w"
      [] label = <<"S">> -> "x"
      [] label = <<"E">> -> "d"
      [] label = <<"W">> -> "a"
      [] label = <<"N", "W">> -> "q"
      [] label = <<"N", "E">> -> "e"
      [] label = <<"S", "W">> -> "z"
      [] label = <<"S", "E">> -> "c"

\* C20: every mapped key installs the frame of its direction (w 40, x 10,
\* d 64, a 58, q 52, e 46, z 28, c 34 short pulses), never the STOP or IDLE
\* frame, and every button label installs the same frame as its key.
C20_KeysInstallDirections ==
    [][/\ \A key \in DOMAIN _key_map :
            _key_press_handler(key)
               => /\ _current_command' = MovingBuffers[KeyPulses[key]]
                  /\ _current_command' \notin {IdleBuffer, StopOnAir}
                  /\ ~raised'
       /\ \A label \in ButtonLabels :
            _button_press_handler(label)
               => _current_command' = MovingBuffers[KeyPulses[KeyOfLabel(label)]]]_vars

\* C20 witness: the reverse-right frame has been installed by a press.
C20_Witness ==
    /\ pc = "idle" /\ event = "press" /\ arg = <<"S", "E">>
    /\ _current_command = MovingBuffers[34]
    /\ pending = {_job}

====
